---- MODULE Spec2Model ----
(***************************************************************************)
(* The 6502 instruction-execution core of the NES emulator: the CPU of     *)
(* src/src/cpu.rs (registers, status flags, flat memory, addressing-mode   *)
(* resolver, fetch-decode-execute loop) and its earlier form in            *)
(* src/src/main.rs.  The variable `variant` says which of the two CPUs a   *)
(* behaviour is about.                                                     *)
(*                                                                         *)
(* Representation.  `memory` is the byte array [u8; 0xFFFF]; it is kept as *)
(* the function from the addresses holding a non-zero byte to that byte    *)
(* (every other valid address holds 0, as CPU::new leaves it), so that two *)
(* equal arrays are equal values.  A Vec<u8> program image is kept the     *)
(* same way: its length and its non-zero bytes by 0-based index.           *)
(* A panic (index out of bounds, expect on the opcode table, todo!) is the *)
(* field `fault` of the CPU record becoming non-empty; the state at the    *)
(* panic keeps every write made before it.                                 *)
(***************************************************************************)
EXTENDS Integers, Sequences, FiniteSets, TLC

VARIABLES
    variant,          \* "cpu" (src/src/cpu.rs) or "main" (src/src/main.rs)
    register_a,
    register_x,
    register_y,
    status,
    program_counter,
    memory,
    mode,             \* "new", "loaded", "reset", "running", "halted", "panicked"
    fault,            \* the panic message class, "" when none
    code,             \* run(): the opcode byte of the last iteration (-1: none)
    fetch_pc,         \* run(): the address that opcode byte was fetched at
    program,          \* the image given to the last load
    last,             \* the last call of the public API and what it returned
    written,          \* the caller's last mem_write / mem_write_u16 call
    setup             \* number of caller-side preparation calls made so far

vars == <<variant, register_a, register_x, register_y, status, program_counter,
          memory, mode, fault, code, fetch_pc, program, last, written, setup>>

-----------------------------------------------------------------------------
(* Widths and sizes *)

U8 == 256
U16 == 65536
\* memory: [u8; 0xFFFF]
MEMORY_LEN == 65535
\* load: 0x8000
ORIGIN == 32768
\* reset vector: 0xFFFC
RESET_VECTOR == 65532
\* StatusFlags::from_bits_truncate(0b100100)
STATUS_DEFAULT == 36

(* StatusFlags *)
CARRY == 1
ZERO == 2
INTERRUPT_DISABLE == 4
DECIMAL_MODE == 8
BREAK == 16
BREAK2 == 32
OVERFLOW == 64
NEGATIVE == 128

contains(s, f) == (s \div f) % 2 = 1
insert(s, f) == IF contains(s, f) THEN s ELSE s + f
remove(s, f) == IF contains(s, f) THEN s - f ELSE s

-----------------------------------------------------------------------------
(* Bounds of the model *)

\* longest generic program, in instructions (the terminating opcode apart)
MaxInstr == 2
\* most INX in a row in the LDA; TAX; INX... programs
MaxInx == 2
\* most preparation calls (mem_write, mem_write_u16, set/unset carry, field
\* writes) the caller makes in one behaviour
MaxSetup == 1

-----------------------------------------------------------------------------
(* Sparse arrays *)

EmptyMem == [a \in {} |-> 0]

MemAt(mem, a) == IF a \in DOMAIN mem THEN mem[a] ELSE 0

Store(mem, a, v) ==
    IF v = 0
    THEN [x \in (DOMAIN mem) \ {a} |-> mem[x]]
    ELSE [x \in (DOMAIN mem) \cup {a} |-> IF x = a THEN v ELSE mem[x]]

\* a Vec<u8> from the sequence of its bytes
Vec(seq) ==
    [len |-> Len(seq),
     at  |-> [i \in {j \in 0..(Len(seq) - 1) : seq[j + 1] # 0} |-> seq[i + 1]]]

VecAt(v, i) == IF i \in DOMAIN v.at THEN v.at[i] ELSE 0

-----------------------------------------------------------------------------
(* The CPU as a value *)

FAULT == -1
NoFault == ""
IndexOutOfBounds == "index out of bounds"
NotRecognized == "OpCode is not recognized"
NotImplemented == "not yet implemented"
AddOverflow == "attempt to add with overflow"
ModeNotSupported == "Addressing mode is not supported"

Cpu ==
    [register_a |-> register_a, register_x |-> register_x,
     register_y |-> register_y, status |-> status,
     program_counter |-> program_counter, memory |-> memory, fault |-> fault]

Panic(c, what) == [c EXCEPT !.fault = what]

\* every flag clear in both CPUs
new_all_clear(v) ==
    [register_a |-> 0, register_x |-> 0, register_y |-> 0,
     status |-> 0,
     program_counter |-> 0, memory |-> EmptyMem, fault |-> NoFault]

new(v) ==
    [register_a |-> 0, register_x |-> 0, register_y |-> 0,
     status |-> IF v = "cpu" THEN STATUS_DEFAULT ELSE 0,
     program_counter |-> 0, memory |-> EmptyMem, fault |-> NoFault]

\* self.memory[addr as usize]: the index is checked against the array length
mem_read(mem, addr) == IF addr < MEMORY_LEN THEN MemAt(mem, addr) ELSE FAULT

\* the two bytes combined the wrong way round: (lo << 8) | hi
mem_read_u16_big_endian(mem, pos) ==
    LET lo == mem_read(mem, pos) IN
    IF lo = FAULT THEN FAULT
    ELSE LET hi == mem_read(mem, pos + 1) IN
         IF hi = FAULT THEN FAULT ELSE (lo * U8) + hi

\* pos + 1 is evaluated only after mem_read(pos) has returned, so pos <= 0xFFFE
\* there and the u16 addition cannot overflow
mem_read_u16(mem, pos) ==
    LET lo == mem_read(mem, pos) IN
    IF lo = FAULT THEN FAULT
    ELSE LET hi == mem_read(mem, pos + 1) IN
         IF hi = FAULT THEN FAULT ELSE (hi * U8) + lo

mem_write(c, addr, data) ==
    IF c.fault # NoFault THEN c
    ELSE IF addr < MEMORY_LEN
         THEN [c EXCEPT !.memory = Store(@, addr, data)]
         ELSE Panic(c, IndexOutOfBounds)

mem_write_u16(c, addr, data) ==
    LET hi == data \div U8
        lo == data % U8
    IN mem_write(mem_write(c, addr, lo), addr + 1, hi)

SliceOutOfRange == "range end index out of range for slice"

\* the image copied into an array cleared first
copy_into_cleared(mem, prog) ==
    [a \in {ORIGIN + i : i \in DOMAIN prog.at} |-> prog.at[a - ORIGIN]]

\* self.memory[0x8000 .. 0x8000 + len].copy_from_slice(&program[..])
copy_from_slice(mem, prog) ==
    LET keep == {a \in DOMAIN mem : a < ORIGIN \/ a >= ORIGIN + prog.len}
        put  == {ORIGIN + i : i \in DOMAIN prog.at}
    IN [a \in keep \cup put |-> IF a \in put THEN prog.at[a - ORIGIN] ELSE mem[a]]

\* the copy alone, the reset vector left as it was
load_without_reset_vector(c, prog) ==
    IF ORIGIN + prog.len > MEMORY_LEN
    THEN Panic(c, SliceOutOfRange)
    ELSE [c EXCEPT !.memory = copy_from_slice(@, prog)]

load(c, prog) ==
    IF ORIGIN + prog.len > MEMORY_LEN
    THEN Panic(c, SliceOutOfRange)
    ELSE mem_write_u16([c EXCEPT !.memory = copy_from_slice(@, prog)],
                       RESET_VECTOR, ORIGIN)

\* the status pattern reset() installs: 0b100100 in cpu.rs, 0 in main.rs
reset_status(v) == IF v = "cpu" THEN STATUS_DEFAULT ELSE 0

\* register_y reinitialised with the other registers
reset_clears_y(c, v) ==
    LET pc == mem_read_u16(c.memory, RESET_VECTOR) IN
    IF pc = FAULT
    THEN Panic([c EXCEPT !.register_a = 0, !.register_x = 0, !.register_y = 0,
                         !.status = reset_status(v)], IndexOutOfBounds)
    ELSE [c EXCEPT !.register_a = 0, !.register_x = 0, !.register_y = 0,
                   !.status = reset_status(v), !.program_counter = pc]

\* index-X takes the accumulator's old value before the accumulator is cleared
reset_x_from_a(c, v) ==
    LET pc == mem_read_u16(c.memory, RESET_VECTOR) IN
    IF pc = FAULT
    THEN Panic([c EXCEPT !.register_a = 0, !.register_x = c.register_a,
                         !.status = reset_status(v)], IndexOutOfBounds)
    ELSE [c EXCEPT !.register_a = 0, !.register_x = c.register_a,
                   !.status = reset_status(v), !.program_counter = pc]

reset(c, v) ==
    LET pc == mem_read_u16(c.memory, RESET_VECTOR) IN
    IF pc = FAULT
    THEN Panic([c EXCEPT !.register_a = 0, !.register_x = 0,
                         !.status = reset_status(v)], IndexOutOfBounds)
    ELSE [c EXCEPT !.register_a = 0, !.register_x = 0,
                   !.status = reset_status(v), !.program_counter = pc]

-----------------------------------------------------------------------------
(* Status flags *)

set_carry_flag(c) == [c EXCEPT !.status = insert(@, CARRY)]

unset_carry_flag(c) == [c EXCEPT !.status = remove(@, CARRY)]

\* the Negative test reading bit 6 (0b0100_0000) instead of bit 7
update_flags_bit6(c) ==
    LET s1 == IF c.register_a = 0
              THEN insert(c.status, ZERO) ELSE remove(c.status, ZERO)
        s2 == IF (c.register_a \div 64) % 2 # 0
              THEN insert(s1, NEGATIVE) ELSE remove(s1, NEGATIVE)
    IN [c EXCEPT !.status = s2]

update_zero_and_negative_flags(c) ==
    LET s1 == IF c.register_a = 0
              THEN insert(c.status, ZERO) ELSE remove(c.status, ZERO)
        s2 == IF (c.register_a \div 128) % 2 # 0
              THEN insert(s1, NEGATIVE) ELSE remove(s1, NEGATIVE)
    IN [c EXCEPT !.status = s2]

-----------------------------------------------------------------------------
(* Addressing modes *)

\* the 8-bit sum widened, not wrapped
widening_add_u8(a, b) == a + b

wrapping_add_u8(a, b) == (a + b) % U8

\* the 16-bit sum checked: an overflow is a panic
checked_add_u16(a, b) == IF a + b >= U16 THEN FAULT ELSE a + b

wrapping_add_u16(a, b) == (a + b) % U16

\* FAULT when one of its reads indexes outside the array (the panic message is
\* then IndexOutOfBounds) and for NoneAddressing (ModeNotSupported)
get_operand_address(c, m) ==
    LET pc == c.program_counter
        mem == c.memory
    IN CASE m = "Immediate" -> pc
         [] m = "ZeroPage" -> mem_read(mem, pc)
         [] m = "Absolute" -> mem_read_u16(mem, pc)
         [] m = "ZeroPage_X" ->
                LET pos == mem_read(mem, pc) IN
                IF pos = FAULT THEN FAULT ELSE wrapping_add_u8(pos, c.register_x)
         [] m = "ZeroPage_Y" ->
                LET pos == mem_read(mem, pc) IN
                IF pos = FAULT THEN FAULT ELSE wrapping_add_u8(pos, c.register_y)
         [] m = "Absolute_X" ->
                LET pos == mem_read_u16(mem, pc) IN
                IF pos = FAULT THEN FAULT ELSE wrapping_add_u16(pos, c.register_x)
         [] m = "Absolute_Y" ->
                LET pos == mem_read_u16(mem, pc) IN
                IF pos = FAULT THEN FAULT ELSE wrapping_add_u16(pos, c.register_y)
         [] m = "Indirect_X" ->
                LET base == mem_read(mem, pc) IN
                IF base = FAULT THEN FAULT
                ELSE LET ptr == wrapping_add_u8(base, c.register_x)
                         lo == mem_read(mem, ptr)
                         hi == mem_read(mem, wrapping_add_u8(ptr, 1))
                     IN (hi * U8) + lo
         [] m = "Indirect_Y" ->
                LET base == mem_read(mem, pc) IN
                IF base = FAULT THEN FAULT
                ELSE LET ptr == wrapping_add_u8(base, c.register_y)
                         lo == mem_read(mem, ptr)
                         hi == mem_read(mem, wrapping_add_u8(ptr, 1))
                     IN (hi * U8) + lo
         [] OTHER -> FAULT

operand_fault(m) == IF m = "NoneAddressing" THEN ModeNotSupported ELSE IndexOutOfBounds

-----------------------------------------------------------------------------
(* Instruction handlers *)

\* saturating_add in place of wrapping_add
inx_saturating(c) ==
    update_zero_and_negative_flags(
        [c EXCEPT !.register_x = IF @ = 255 THEN 255 ELSE @ + 1])

\* Zero and Negative taken from the incremented index-X
inx_flags_from_x(c) ==
    LET x == wrapping_add_u8(c.register_x, 1)
        s1 == IF x = 0 THEN insert(c.status, ZERO) ELSE remove(c.status, ZERO)
        s2 == IF x >= 128 THEN insert(s1, NEGATIVE) ELSE remove(s1, NEGATIVE)
    IN [c EXCEPT !.register_x = x, !.status = s2]

inx(c) ==
    update_zero_and_negative_flags(
        [c EXCEPT !.register_x = wrapping_add_u8(@, 1)])

\* the transfer made the wrong way: register_a = register_x
tax_reversed(c) ==
    update_zero_and_negative_flags([c EXCEPT !.register_a = c.register_x])

tax(c) ==
    update_zero_and_negative_flags([c EXCEPT !.register_x = c.register_a])

lda(c, m) ==
    LET addr == get_operand_address(c, m) IN
    IF addr = FAULT THEN Panic(c, operand_fault(m))
    ELSE LET value == mem_read(c.memory, addr) IN
         IF value = FAULT THEN Panic(c, IndexOutOfBounds)
         ELSE update_zero_and_negative_flags([c EXCEPT !.register_a = value])

\* index-X written in place of the accumulator
sta_stores_x(c, m) ==
    LET addr == get_operand_address(c, m) IN
    IF addr = FAULT THEN Panic(c, operand_fault(m))
    ELSE mem_write(c, addr, c.register_x)

sta(c, m) ==
    LET addr == get_operand_address(c, m) IN
    IF addr = FAULT THEN Panic(c, operand_fault(m))
    ELSE mem_write(c, addr, c.register_a)

\* the sum taken without the incoming Carry
adc_ignores_carry_in(c, m) ==
    LET addr == get_operand_address(c, m) IN
    IF addr = FAULT THEN Panic(c, operand_fault(m))
    ELSE LET value == mem_read(c.memory, addr) IN
         IF value = FAULT THEN Panic(c, IndexOutOfBounds)
         ELSE LET result == c.register_a + value
                  c1 == IF result > 255 THEN set_carry_flag(c)
                                        ELSE unset_carry_flag(c)
              IN update_zero_and_negative_flags(
                     [c1 EXCEPT !.register_a = result % U8])

\* Overflow computed: set when both operands have the sign the sum has not
adc_sets_overflow(c, m) ==
    LET addr == get_operand_address(c, m) IN
    IF addr = FAULT THEN Panic(c, operand_fault(m))
    ELSE LET value == mem_read(c.memory, addr) IN
         IF value = FAULT THEN Panic(c, IndexOutOfBounds)
         ELSE LET result == c.register_a + value
                              + (IF contains(c.status, CARRY) THEN 1 ELSE 0)
                  c1 == IF result > 255 THEN set_carry_flag(c)
                                        ELSE unset_carry_flag(c)
                  signed == /\ (c.register_a >= 128) = (value >= 128)
                            /\ ((result % U8) >= 128) # (value >= 128)
                  c2 == [c1 EXCEPT !.status = IF signed THEN insert(@, OVERFLOW)
                                                        ELSE remove(@, OVERFLOW)]
              IN update_zero_and_negative_flags(
                     [c2 EXCEPT !.register_a = result % U8])

adc(c, m) ==
    LET addr == get_operand_address(c, m) IN
    IF addr = FAULT THEN Panic(c, operand_fault(m))
    ELSE LET value == mem_read(c.memory, addr) IN
         IF value = FAULT THEN Panic(c, IndexOutOfBounds)
         ELSE LET result == c.register_a + value
                              + (IF contains(c.status, CARRY) THEN 1 ELSE 0)
                  c1 == IF result > 255 THEN set_carry_flag(c)
                                        ELSE unset_carry_flag(c)
              IN update_zero_and_negative_flags(
                     [c1 EXCEPT !.register_a = result % U8])

-----------------------------------------------------------------------------
(* The opcode table (crate::opcodes::OPCODES_MAP): operand length and        *)
(* addressing mode per opcode byte                                           *)

LDA_CODES == {169, 165, 181, 173, 189, 185, 161, 177}
STA_CODES == {133, 149, 141, 157, 153, 129, 145}
ADC_CODES == {105, 101, 117, 109, 125, 121, 97, 113}
TAX_CODE == 170
INX_CODE == 232
BRK_CODE == 0
\* NOP: an opcode the table describes and the match of run() has no arm for
NOP_CODE == 234

OpCode(l, m) == [len |-> l, mode |-> m]

OPCODES_MAP ==
    (0 :> OpCode(1, "NoneAddressing")) @@
    (170 :> OpCode(1, "NoneAddressing")) @@
    (232 :> OpCode(1, "NoneAddressing")) @@
    (169 :> OpCode(2, "Immediate")) @@
    (165 :> OpCode(2, "ZeroPage")) @@
    (181 :> OpCode(2, "ZeroPage_X")) @@
    (173 :> OpCode(3, "Absolute")) @@
    (189 :> OpCode(3, "Absolute_X")) @@
    (185 :> OpCode(3, "Absolute_Y")) @@
    (161 :> OpCode(2, "Indirect_X")) @@
    (177 :> OpCode(2, "Indirect_Y")) @@
    (133 :> OpCode(2, "ZeroPage")) @@
    (149 :> OpCode(2, "ZeroPage_X")) @@
    (141 :> OpCode(3, "Absolute")) @@
    (157 :> OpCode(3, "Absolute_X")) @@
    (153 :> OpCode(3, "Absolute_Y")) @@
    (129 :> OpCode(2, "Indirect_X")) @@
    (145 :> OpCode(2, "Indirect_Y")) @@
    (105 :> OpCode(2, "Immediate")) @@
    (101 :> OpCode(2, "ZeroPage")) @@
    (117 :> OpCode(2, "ZeroPage_X")) @@
    (109 :> OpCode(3, "Absolute")) @@
    (125 :> OpCode(3, "Absolute_X")) @@
    (121 :> OpCode(3, "Absolute_Y")) @@
    (97 :> OpCode(2, "Indirect_X")) @@
    (113 :> OpCode(2, "Indirect_Y")) @@
    (NOP_CODE :> OpCode(1, "NoneAddressing"))

-----------------------------------------------------------------------------
(* The execution loop, one iteration at a time *)

\* self.program_counter += n on a u16: past 0xFFFF the addition panics in a
\* build with overflow checks
advance(c, n) ==
    IF c.fault # NoFault THEN c
    ELSE IF c.program_counter + n >= U16 THEN Panic(c, AddOverflow)
    ELSE [c EXCEPT !.program_counter = @ + n]

\* BRK raising the Break flag before the loop returns
dispatch_brk_sets_break(c, opc, opcode) ==
    CASE opc \in LDA_CODES -> lda(c, opcode.mode)
      [] opc \in STA_CODES -> sta(c, opcode.mode)
      [] opc \in ADC_CODES -> adc(c, opcode.mode)
      [] opc = TAX_CODE -> tax(c)
      [] opc = INX_CODE -> inx(c)
      [] opc = BRK_CODE -> [c EXCEPT !.status = insert(@, BREAK)]
      [] OTHER -> Panic(c, NotImplemented)

\* an opcode without an arm passed over as if it did nothing
dispatch_skips_unhandled(c, opc, opcode) ==
    CASE opc \in LDA_CODES -> lda(c, opcode.mode)
      [] opc \in STA_CODES -> sta(c, opcode.mode)
      [] opc \in ADC_CODES -> adc(c, opcode.mode)
      [] opc = TAX_CODE -> tax(c)
      [] opc = INX_CODE -> inx(c)
      [] opc = BRK_CODE -> c
      [] OTHER -> c

\* the match of cpu.rs: the handler of an opcode byte found in the table
dispatch(c, opc, opcode) ==
    CASE opc \in LDA_CODES -> lda(c, opcode.mode)
      [] opc \in STA_CODES -> sta(c, opcode.mode)
      [] opc \in ADC_CODES -> adc(c, opcode.mode)
      [] opc = TAX_CODE -> tax(c)
      [] opc = INX_CODE -> inx(c)
      [] opc = BRK_CODE -> c
      [] OTHER -> Panic(c, NotImplemented)

\* the whole length added, the opcode byte counted twice
operand_skip_whole_length(c, program_counter_state, opcode) ==
    IF program_counter_state = c.program_counter THEN opcode.len ELSE 0

\* how far the loop moves the program counter once the handler has returned
operand_skip(c, program_counter_state, opcode) ==
    IF program_counter_state = c.program_counter THEN opcode.len - 1 ELSE 0

\* cpu.rs: one pass of the loop of run(); on BRK the pass returns from run()
run_iteration(c) ==
    LET opc == mem_read(c.memory, c.program_counter) IN
    IF opc = FAULT THEN Panic(c, IndexOutOfBounds)
    ELSE LET c1 == advance(c, 1)
             program_counter_state == c1.program_counter
         IN IF c1.fault # NoFault THEN c1
            ELSE IF opc \notin DOMAIN OPCODES_MAP THEN Panic(c1, NotRecognized)
            ELSE LET opcode == OPCODES_MAP[opc]
                     c2 == dispatch(c1, opc, opcode)
                 IN IF c2.fault # NoFault \/ opc = BRK_CODE THEN c2
                    ELSE advance(c2, operand_skip(c2, program_counter_state, opcode))

\* main.rs: one pass of the loop of run()
run_iteration_main(c) ==
    LET opc == mem_read(c.memory, c.program_counter) IN
    IF opc = FAULT THEN Panic(c, IndexOutOfBounds)
    ELSE LET c1 == advance(c, 1) IN
         CASE c1.fault # NoFault -> c1
           [] opc = 169 -> advance(lda(c1, "Immediate"), 1)
           [] opc = 165 -> advance(lda(c1, "ZeroPage"), 1)
           [] opc = 173 -> advance(lda(c1, "Absolute"), 2)
           [] opc = 170 -> tax(c1)
           [] opc = 232 -> inx(c1)
           [] opc = 133 -> advance(sta(c1, "ZeroPage"), 1)
           [] opc = 149 -> advance(sta(c1, "ZeroPage_X"), 1)
           [] opc = 0 -> c1
           [] OTHER -> Panic(c1, NotImplemented)

load_and_run_entry(c, prog, v) ==
    LET c1 == load(c, prog) IN
    IF c1.fault # NoFault THEN c1 ELSE reset(c1, v)

-----------------------------------------------------------------------------
(* Inputs *)

Bytes == 0..255

\* the generic instructions: LDA #v, TAX, INX, and ADC in each of its eight
\* addressing modes; the absolute and indirect operands point into the loaded
\* image or at the data the caller prepares; the last one reads address 0xFFFF
InstrSet ==
    {<<169, 80>>, <<169, 255>>,
     <<170>>, <<232>>,
     <<105, 80>>,
     <<101, 16>>,
     <<117, 15>>,
     <<109, 1, 128>>,
     <<125, 0, 128>>,
     <<121, 0, 128>>,
     <<97, 31>>,
     <<113, 32>>,
     <<109, 255, 255>>}

\* LDA and STA in their other addressing modes, run after LDA #0xFF
ModeInstr ==
    {<<165, 16>>, <<181, 15>>, <<173, 1, 128>>, <<189, 0, 128>>,
     <<185, 0, 128>>, <<161, 31>>, <<177, 31>>,
     <<133, 16>>, <<149, 1>>, <<141, 221, 85>>, <<157, 221, 85>>,
     <<153, 221, 85>>, <<129, 31>>, <<145, 31>>}

\* accumulator values of the LDA; TAX; INX... programs
InxVals == {0, 5, 127, 128, 192, 254, 255}

RECURSIVE Chains(_)
Chains(n) ==
    IF n = 0 THEN {<<>>}
    ELSE LET shorter == Chains(n - 1) IN
         shorter \cup {s \o i : s \in shorter, i \in InstrSet}

RECURSIVE Repeat(_, _)
Repeat(seq, n) == IF n = 0 THEN <<>> ELSE seq \o Repeat(seq, n - 1)

\* up to MaxInstr generic instructions, then BRK
GenericPrograms == {Vec(s \o <<0>>) : s \in Chains(MaxInstr)}

\* [0xA9, 0xFF, <LDA or STA in some mode>, 0x00]
ModePrograms == {Vec(<<169, 255>> \o i \o <<0>>) : i \in ModeInstr}

\* [0xA9, v, 0x00], every byte v
LdaPrograms == {Vec(<<169, v, 0>>) : v \in Bytes}

\* [0xA9, v, 0xAA, 0xE8 x n, 0x00]
InxProgram(v, n) == Vec(<<169, v, 170>> \o Repeat(<<232>>, n) \o <<0>>)

InxPrograms == {InxProgram(v, n) : v \in InxVals, n \in 0..MaxInx}

\* opcode bytes run() has no handler for: 0x02 and 0xFF are in no table, NOP
\* is in the table
UnsupportedCodes == {2, NOP_CODE, 255}

\* [0xA9, 0xFF, 0xAA, b, 0xE8, 0x00]
UnsupportedPrograms ==
    {Vec(<<169, 255, 170, b, 232, 0>>) : b \in UnsupportedCodes}

\* [0xA5, z, 0x00] and [0xAD, lo, hi, 0x00], reading the addresses the caller
\* writes (0x10, 0x20, 0x21, 0x55DD, 0x55DE) and one it does not (0x11)
LoadDataPrograms ==
    {Vec(<<165, z, 0>>) : z \in {16, 17, 32, 33}} \cup
    {Vec(<<173, w[1], w[2], 0>>) :
        w \in {<<16, 0>>, <<33, 0>>, <<221, 85>>, <<222, 85>>}}

\* [0xA9, v, 0xAA, 0x95, z, 0x00]: LDA #v; TAX; STA z,X; BRK
StoreVals == {0, 1, 128, 255}
StoreOperands == {1, 16, 128, 255}
StoreProgram(v, z) == Vec(<<169, v, 170, 149, z, 0>>)
StorePrograms == {StoreProgram(v, z) : v \in StoreVals, z \in StoreOperands}

Programs ==
    GenericPrograms \cup ModePrograms \cup LdaPrograms \cup InxPrograms
        \cup UnsupportedPrograms \cup LoadDataPrograms \cup StorePrograms

\* what the caller writes before running: an operand at 0x10, a pointer at
\* 0x20 (to 0x8001, inside the image), the word 0x4455 at 0x55DD
SetupBytes == {<<16, 80>>, <<16, 255>>}
SetupWords == {<<32, 32769>>, <<21981, 17493>>}
SetupY == {1, 255}

-----------------------------------------------------------------------------
(* The state machine *)

NoCall == [op |-> "new", addr |-> -1, data |-> -1, ret |-> -1]
Call(o, a, d, r) == [op |-> o, addr |-> a, data |-> d, ret |-> r]

Init ==
    /\ variant \in {"cpu", "main"}
    /\ register_a = new(variant).register_a
    /\ register_x = new(variant).register_x
    /\ register_y = new(variant).register_y
    /\ status = new(variant).status
    /\ program_counter = new(variant).program_counter
    /\ memory = new(variant).memory
    /\ fault = new(variant).fault
    /\ mode = "new"
    /\ code = -1
    /\ fetch_pc = -1
    /\ program = Vec(<<>>)
    /\ last = NoCall
    /\ written = NoCall
    /\ setup = 0

\* the CPU after a call: a panic ends the behaviour in mode "panicked"
Becomes(c, m) ==
    /\ register_a' = c.register_a
    /\ register_x' = c.register_x
    /\ register_y' = c.register_y
    /\ status' = c.status
    /\ program_counter' = c.program_counter
    /\ memory' = c.memory
    /\ fault' = c.fault
    /\ mode' = IF c.fault # NoFault THEN "panicked" ELSE m

Idle == mode \in {"new", "loaded", "reset"}

MemWrite(addr, data) ==
    /\ Idle /\ setup < MaxSetup
    /\ Becomes(mem_write(Cpu, addr, data), mode)
    /\ last' = Call("mem_write", addr, data, -1)
    /\ written' = IF fault' = NoFault THEN last' ELSE written
    /\ setup' = setup + 1
    /\ UNCHANGED <<variant, code, fetch_pc, program>>

MemWriteU16(addr, data) ==
    /\ Idle /\ setup < MaxSetup
    /\ Becomes(mem_write_u16(Cpu, addr, data), mode)
    /\ last' = Call("mem_write_u16", addr, data, -1)
    /\ written' = IF fault' = NoFault THEN last' ELSE written
    /\ setup' = setup + 1
    /\ UNCHANGED <<variant, code, fetch_pc, program>>

SetCarryFlag ==
    /\ Idle /\ setup < MaxSetup /\ variant = "cpu"
    /\ Becomes(set_carry_flag(Cpu), mode)
    /\ last' = Call("set_carry_flag", -1, -1, -1)
    /\ setup' = setup + 1
    /\ UNCHANGED <<variant, written, code, fetch_pc, program>>

UnsetCarryFlag ==
    /\ Idle /\ setup < MaxSetup /\ variant = "cpu"
    /\ Becomes(unset_carry_flag(Cpu), mode)
    /\ last' = Call("unset_carry_flag", -1, -1, -1)
    /\ setup' = setup + 1
    /\ UNCHANGED <<variant, written, code, fetch_pc, program>>

\* pub register_y: the caller assigns the field
WriteRegisterY(v) ==
    /\ Idle /\ setup < MaxSetup
    /\ Becomes([Cpu EXCEPT !.register_y = v], mode)
    /\ last' = Call("register_y", -1, v, -1)
    /\ setup' = setup + 1
    /\ UNCHANGED <<variant, written, code, fetch_pc, program>>

MemRead(addr) ==
    /\ Idle
    /\ LET r == mem_read(memory, addr) IN
       /\ Becomes(IF r = FAULT THEN Panic(Cpu, IndexOutOfBounds) ELSE Cpu, mode)
       /\ last' = Call("mem_read", addr, -1, r)
    /\ UNCHANGED <<variant, written, code, fetch_pc, program, setup>>

MemReadU16(pos) ==
    /\ Idle
    /\ LET r == mem_read_u16(memory, pos) IN
       /\ Becomes(IF r = FAULT THEN Panic(Cpu, IndexOutOfBounds) ELSE Cpu, mode)
       /\ last' = Call("mem_read_u16", pos, -1, r)
    /\ UNCHANGED <<variant, written, code, fetch_pc, program, setup>>

Load(prog) ==
    /\ mode = "new"
    /\ Becomes(load(Cpu, prog), "loaded")
    /\ program' = prog
    /\ last' = Call("load", -1, -1, -1)
    /\ UNCHANGED <<variant, written, code, fetch_pc, setup>>

\* reset() is called on a CPU in any state but a panicked one; `data` of the
\* call record tells a reset that directly follows another (2) from a first
\* one (1); the locals of run() are gone
Reset ==
    /\ mode \in {"new", "loaded", "reset", "halted"}
    /\ Becomes(reset(Cpu, variant), "reset")
    /\ last' = Call("reset", -1, IF last.op = "reset" THEN 2 ELSE 1, -1)
    /\ code' = -1
    /\ fetch_pc' = -1
    /\ UNCHANGED <<variant, written, program, setup>>

Run ==
    /\ Idle
    /\ Becomes(Cpu, "running")
    /\ last' = Call("run", -1, -1, -1)
    /\ UNCHANGED <<variant, written, code, fetch_pc, program, setup>>

LoadAndRun(prog) ==
    /\ mode = "new"
    /\ Becomes(load_and_run_entry(Cpu, prog, variant), "running")
    /\ program' = prog
    /\ last' = Call("load_and_run", -1, -1, -1)
    /\ UNCHANGED <<variant, written, code, fetch_pc, setup>>

\* the mode after one pass of the loop that fetched opc
after_iteration(opc) == IF opc = BRK_CODE THEN "halted" ELSE "running"

RunStep ==
    /\ mode = "running" /\ variant = "cpu"
    /\ code' = mem_read(memory, program_counter)
    /\ fetch_pc' = program_counter
    /\ Becomes(run_iteration(Cpu), after_iteration(code'))
    /\ UNCHANGED <<variant, written, program, last, setup>>

RunStepMain ==
    /\ mode = "running" /\ variant = "main"
    /\ code' = mem_read(memory, program_counter)
    /\ fetch_pc' = program_counter
    /\ Becomes(run_iteration_main(Cpu), after_iteration(code'))
    /\ UNCHANGED <<variant, written, program, last, setup>>

\* the calls with their arguments drawn from the input sets
PrepareByte ==
    Idle /\ setup < MaxSetup /\ \E w \in SetupBytes : MemWrite(w[1], w[2])

PrepareWord ==
    Idle /\ setup < MaxSetup /\ \E w \in SetupWords : MemWriteU16(w[1], w[2])

PrepareY == Idle /\ setup < MaxSetup /\ \E v \in SetupY : WriteRegisterY(v)

LoadProgram == mode = "new" /\ \E prog \in Programs : Load(prog)

LoadAndRunProgram == mode = "new" /\ \E prog \in Programs : LoadAndRun(prog)

Next ==
    \/ PrepareByte
    \/ PrepareWord
    \/ SetCarryFlag
    \/ UnsetCarryFlag
    \/ PrepareY
    \/ LoadProgram
    \/ Reset
    \/ Run
    \/ LoadAndRunProgram
    \/ RunStep
    \/ RunStepMain

Spec == Init /\ [][Next]_vars

-----------------------------------------------------------------------------
(* The memory interface on its own: the accessors over the whole address   *)
(* range and load with images up to the end of the array                    *)

\* 0x0000, 0x00FF, 0x8001, 0xFFFC, 0xFFFD, 0xFFFE, 0xFFFF
MemAddrs == {0, 255, 32769, 65532, 65533, 65534, 65535}
MemBytes == {1, 255}
\* 0x00FF, 0x1234, 0x8000, 0xFFFF
MemWords == {255, 4660, 32768, 65535}

\* an image of n bytes, all zero but the last two, which are b
TailImage(n, b) == [len |-> n, at |-> [i \in (n - 2)..(n - 1) |-> b]]

\* short images, and images that end just before, on and after the reset
\* vector and the end of the array (0x7FFC .. 0x8000 bytes)
MemImages ==
    {Vec(<<>>), Vec(<<169, 5, 0>>), Vec(<<169, 255, 170, 232, 232, 0>>)} \cup
    {TailImage(n, 234) : n \in {32764, 32765, 32766, 32767, 32768}}

WriteByte ==
    Idle /\ setup < MaxSetup
         /\ \E addr \in MemAddrs, data \in MemBytes : MemWrite(addr, data)

WriteWord ==
    Idle /\ setup < MaxSetup
         /\ \E addr \in MemAddrs, data \in MemWords : MemWriteU16(addr, data)

ReadByte == Idle /\ \E addr \in MemAddrs : MemRead(addr)

ReadWord == Idle /\ \E addr \in MemAddrs : MemReadU16(addr)

LoadImage == mode = "new" /\ \E prog \in MemImages : Load(prog)

NextMem ==
    \/ WriteByte
    \/ WriteWord
    \/ ReadByte
    \/ ReadWord
    \/ LoadImage

SpecMem == Init /\ [][NextMem]_vars

-----------------------------------------------------------------------------
(* The addressing-mode resolver on its own: get_operand_address is public, *)
(* and so are the registers; it is called on CPUs whose program counter,   *)
(* index registers and memory the caller has set                           *)

AddressingModes ==
    {"Immediate", "ZeroPage", "ZeroPage_X", "ZeroPage_Y", "Absolute",
     "Absolute_X", "Absolute_Y", "Indirect_X", "Indirect_Y", "NoneAddressing"}

\* 0x0000, 0x8000 and 0xFFFE, the last address of the array
AddrPcs == {0, 32768, 65534}
IndexVals == {0, 1, 2, 255}
OperandLow == {0, 1, 254, 255}
OperandHigh == {0, 128, 255}

\* contents of pages 0 and 1: pointers at 0x00, 0x01 and 0xFE, a pointer at
\* 0xFF whose high byte is at 0x00 (and a different byte at 0x100)
Pages ==
    {EmptyMem,
     (0 :> 52) @@ (1 :> 18) @@ (2 :> 86),
     (254 :> 255) @@ (255 :> 255),
     (255 :> 52) @@ (0 :> 18) @@ (256 :> 86),
     (1 :> 254) @@ (2 :> 255) @@ (255 :> 1) @@ (256 :> 1)}

\* a page with the operand bytes lo, hi written at pc and pc + 1
WithOperand(page, pc, lo, hi) ==
    LET m1 == Store(page, pc, lo) IN
    IF pc + 1 < MEMORY_LEN THEN Store(m1, pc + 1, hi) ELSE m1

InitAddr ==
    /\ variant = "cpu"
    /\ register_a = 0
    /\ register_x \in IndexVals
    /\ register_y \in IndexVals
    /\ status = STATUS_DEFAULT
    /\ program_counter \in AddrPcs
    /\ \E page \in Pages, lo \in OperandLow, hi \in OperandHigh :
           memory = WithOperand(page, program_counter, lo, hi)
    /\ fault = NoFault
    /\ mode = "new"
    /\ code = -1
    /\ fetch_pc = -1
    /\ program = Vec(<<>>)
    /\ last = NoCall
    /\ written = NoCall
    /\ setup = 0

\* cpu.get_operand_address(&m); the call record has the mode as its `op`, the
\* program counter as `addr` and the address returned as `ret`
GetOperandAddress(m) ==
    /\ Idle
    /\ LET r == get_operand_address(Cpu, m) IN
       /\ Becomes(IF r = FAULT THEN Panic(Cpu, operand_fault(m)) ELSE Cpu, mode)
       /\ last' = Call(m, program_counter, -1, r)
    /\ UNCHANGED <<variant, written, code, fetch_pc, program, setup>>

NextAddr == \E m \in AddressingModes : GetOperandAddress(m)

SpecAddr == InitAddr /\ [][NextAddr]_vars

-----------------------------------------------------------------------------
(* Properties *)

Zero == contains(status, ZERO)
Negative == contains(status, NEGATIVE)
Carry == contains(status, CARRY)

\* one pass of the loop of run() that fetched an opcode and did not leave the
\* loop: the instruction ran to its end
Executed == mode = "running" /\ mode' = "running"

\* the CPU as the handler of the opcode being fetched sees it
Fetched == [Cpu EXCEPT !.program_counter = program_counter + 1]

\* the address the instruction being fetched resolves, by its table entry
Resolved(opc) == get_operand_address(Fetched, OPCODES_MAP[opc].mode)

\* C1: load_and_run of [0xA9, v, 0x00] does not panic and, once run() has
\* returned, accumulator = v, Zero is set iff v = 0 and Negative iff bit 7 of v
\* is set, for every byte v.
C1_LdaImmediate ==
    LET v == VecAt(program, 1) IN
    (last.op = "load_and_run" /\ program = Vec(<<169, v, 0>>)) =>
        /\ mode # "panicked"
        /\ mode = "halted" =>
              /\ register_a = v
              /\ Zero <=> (v = 0)
              /\ Negative <=> (v >= 128)

C1_Witness ==
    /\ last.op = "load_and_run" /\ program = Vec(<<169, 255, 0>>)
    /\ mode = "halted" /\ register_a = 255 /\ Negative /\ ~Zero

\* C2: no call of a byte accessor, direct, through the word accessors or from
\* an instruction handler, fails on its index, whatever the 16-bit address.
C2_NoBoundsFailure == fault # IndexOutOfBounds

\* C3: for addr in [0, 0xFFFD], mem_write_u16(addr, val) does not panic and
\* stores the low byte at addr and the high byte at addr + 1, and a
\* mem_read_u16(addr) that follows it returns val.
C3_WordRoundTrip ==
    [][/\ (last'.op = "mem_write_u16" /\ last'.addr <= 65533) =>
             /\ mode' # "panicked"
             /\ MemAt(memory', last'.addr) = last'.data % 256
             /\ MemAt(memory', last'.addr + 1) = last'.data \div 256
       /\ (/\ last.op = "mem_write_u16" /\ last.addr <= 65533
           /\ last'.op = "mem_read_u16" /\ last'.addr = last.addr) =>
             /\ mode' # "panicked"
             /\ last'.ret = last.data]_vars

C3_Witness ==
    /\ last.op = "mem_read_u16" /\ last.addr = 65533 /\ last.ret = 4660
    /\ MemAt(memory, 65533) = 52 /\ MemAt(memory, 65534) = 18
    /\ mode # "panicked"

\* C4: load_and_run of [0xA9, v, 0xAA, 0xE8 x n, 0x00], n >= 1, does not
\* panic and, once run() has returned, accumulator = v and
\* index-X = (v + n) mod 256.
C4_InxChain ==
    LET v == VecAt(program, 1)
        n == program.len - 4
    IN (last.op = "load_and_run" /\ n >= 1 /\ program = InxProgram(v, n)) =>
          /\ mode # "panicked"
          /\ mode = "halted" =>
                /\ register_a = v
                /\ register_x = (v + n) % 256

C4_Witness ==
    /\ last.op = "load_and_run" /\ program = InxProgram(255, 2)
    /\ mode = "halted" /\ register_a = 255 /\ register_x = 1

\* C5: an ADC (any of its eight opcodes) that runs to its end leaves
\* accumulator = (a + m + c) mod 256, Carry set iff a + m + c > 255, Zero
\* set iff the new accumulator is 0 and Negative iff its bit 7 is set, where
\* a is the accumulator before, m the byte at the resolved address and c the
\* Carry before.
C5_AddWithCarry ==
    [][(Executed /\ variant = "cpu" /\ code' \in ADC_CODES) =>
          LET m == mem_read(memory, Resolved(code'))
              sum == register_a + m + (IF Carry THEN 1 ELSE 0)
          IN /\ register_a' = sum % 256
             /\ Carry' <=> (sum > 255)
             /\ Zero' <=> (register_a' = 0)
             /\ Negative' <=> (register_a' >= 128)]_vars

\* LDA #0x50; ADC #0x50 from a reset CPU: 0xA0, Carry clear
C5_Witness ==
    /\ last.op = "load_and_run" /\ mode = "running"
    /\ VecAt(program, 0) = 169 /\ VecAt(program, 1) = 80
    /\ VecAt(program, 2) = 105 /\ VecAt(program, 3) = 80
    /\ code = 105 /\ fetch_pc = 32770
    /\ register_a = 160 /\ ~Carry /\ Negative /\ ~Zero

\* C6: after INX, Zero is set iff the new index-X is 0 and Negative iff bit 7
\* of the new index-X is set.
C6_InxFlagsFromX ==
    [][(Executed /\ code' = INX_CODE) =>
          /\ Zero' <=> (register_x' = 0)
          /\ Negative' <=> (register_x' >= 128)]_vars

\* C7: after TAX, index-X = the accumulator, the accumulator is unchanged,
\* Zero is set iff the new index-X is 0 and Negative iff its bit 7 is set.
C7_Tax ==
    [][(Executed /\ code' = TAX_CODE) =>
          /\ register_x' = register_a
          /\ register_a' = register_a
          /\ Zero' <=> (register_x' = 0)
          /\ Negative' <=> (register_x' >= 128)]_vars

C7_Witness ==
    /\ mode = "running" /\ code = TAX_CODE
    /\ register_a = 255 /\ register_x = 255 /\ Negative /\ ~Zero

\* C8: every pass of the loop fetches its opcode at the program counter, and
\* a pass that ran a non-Break instruction to its end leaves the program
\* counter at the fetch address plus the byte length of the opcode's table
\* entry.
C8_ProgramCounter ==
    [][(mode = "running" /\ code' # FAULT) =>
          /\ fetch_pc' = program_counter
          /\ (mode' = "running") =>
                program_counter' = fetch_pc' + OPCODES_MAP[code'].len]_vars

\* a three-byte instruction (ADC absolute) fetched at 0x8002
C8_Witness ==
    /\ mode = "running" /\ code = 109 /\ fetch_pc = 32770
    /\ program_counter = 32773

\* C9: a pass that fetches Break returns from run() with accumulator,
\* index-X, index-Y, the status byte and memory as they were at the fetch,
\* and the program counter one past the opcode byte.
C9_Break ==
    [][(mode = "running" /\ code' = BRK_CODE) =>
          /\ mode' = "halted"
          /\ register_a' = register_a
          /\ register_x' = register_x
          /\ register_y' = register_y
          /\ status' = status
          /\ memory' = memory
          /\ program_counter' = program_counter + 1]_vars

\* LDA #0xFF; ADC #0x50; BRK: the Break is reached with Carry set
C9_Witness ==
    /\ mode = "halted" /\ code = BRK_CODE /\ fetch_pc = 32772
    /\ register_a = 79 /\ Carry /\ ~Zero /\ ~Negative
    /\ program_counter = fetch_pc + 1

\* the addresses of the image area that hold a non-zero byte in the image or
\* in memory (everywhere else in the area both hold 0)
ImageCells(prog, mem) ==
    {ORIGIN + i : i \in DOMAIN prog.at} \cup
    {a \in DOMAIN mem : a >= ORIGIN /\ a < ORIGIN + prog.len}

VectorCells == {RESET_VECTOR, RESET_VECTOR + 1}

\* a load() that returned
Loaded == mode = "new" /\ last'.op = "load" /\ mode' # "panicked"

\* the reset vector holds the origin, little-endian, and nothing outside the
\* image area and the vector has changed
LoadFrame ==
    /\ MemAt(memory', RESET_VECTOR) = 0
    /\ MemAt(memory', RESET_VECTOR + 1) = 128
    /\ mem_read_u16(memory', RESET_VECTOR) = ORIGIN
    /\ \A a \in (DOMAIN memory \cup DOMAIN memory') \
                  (ImageCells(program', memory') \cup VectorCells) :
          (a < ORIGIN \/ a >= ORIGIN + program'.len) =>
              MemAt(memory', a) = MemAt(memory, a)
    /\ register_a' = register_a /\ register_x' = register_x
    /\ register_y' = register_y /\ status' = status
    /\ program_counter' = program_counter

\* C10 as stated: after a load that returned, every image byte is readable
\* at 0x8000 + i, the reset vector holds 0x8000 and nothing else has changed.
C10_LoadEveryByte ==
    [][Loaded =>
          /\ \A a \in ImageCells(program', memory') :
                MemAt(memory', a) = VecAt(program', a - ORIGIN)
          /\ LoadFrame]_vars

\* C10 amended: after a load that returned, every image byte that does not
\* lie on the reset vector (0xFFFC, 0xFFFD) is readable at 0x8000 + i, the
\* reset vector holds 0x8000 and nothing else has changed.
C10_LoadBytesOffVector ==
    [][Loaded =>
          /\ \A a \in ImageCells(program', memory') \ VectorCells :
                MemAt(memory', a) = VecAt(program', a - ORIGIN)
          /\ LoadFrame]_vars

\* an image of 0x7FFF bytes: its last byte is in place at 0xFFFE, the one
\* before it has given way to the vector's high byte
C10_Witness ==
    /\ last.op = "load" /\ mode = "loaded" /\ program = TailImage(32767, 234)
    /\ MemAt(memory, 65534) = 234 /\ MemAt(memory, 65533) = 128
    /\ MemAt(memory, 65532) = 0

-----------------------------------------------------------------------------
(* reset() and CPU::new() *)

\* a step that is a call of reset()
ResetStep == last'.op = "reset" /\ last' # last

\* C11: reset() of cpu.rs sets the accumulator and index-X to 0, the status
\* register to 0b00100100 and the program counter to the little-endian word at
\* 0xFFFC, and leaves memory and index-Y unchanged.
C11_Reset ==
    [][(ResetStep /\ variant = "cpu") =>
          /\ register_a' = 0
          /\ register_x' = 0
          /\ status' = 36
          /\ program_counter' =
                 MemAt(memory, 65532) + (256 * MemAt(memory, 65533))
          /\ memory' = memory
          /\ register_y' = register_y
          /\ fault' = NoFault]_vars

\* reset() after a program that stored the accumulator at 0x10 and halted,
\* with index-Y = 0xFF written by the caller before
C11_Witness ==
    /\ variant = "cpu" /\ last.op = "reset"
    /\ register_y = 255 /\ MemAt(memory, 16) = 255 /\ written = NoCall
    /\ register_a = 0 /\ register_x = 0 /\ status = 36
    /\ program_counter = 32768

\* C12: reset() is idempotent: a second reset() directly after a first leaves
\* every register, the flags, the program counter and memory as the first
\* left them.
C12_ResetIdempotent ==
    [][(ResetStep /\ last.op = "reset") =>
          /\ register_a' = register_a
          /\ register_x' = register_x
          /\ register_y' = register_y
          /\ status' = status
          /\ program_counter' = program_counter
          /\ memory' = memory
          /\ fault' = fault]_vars

\* two resets in a row of a CPU that had halted with a program loaded
C12_Witness ==
    /\ last.op = "reset" /\ last.data = 2
    /\ register_y = 1 /\ program_counter = 32768 /\ MemAt(memory, 16) = 255
    /\ register_a = 0 /\ register_x = 0

\* the CPU as CPU::new() returned it, no call made on it yet
Fresh == last = NoCall

-----------------------------------------------------------------------------
(* Unsupported opcodes and the ways out of run() *)

\* the opcode bytes the match of run() has an arm for
HANDLED == LDA_CODES \cup STA_CODES \cup ADC_CODES \cup {TAX_CODE, INX_CODE, BRK_CODE}
HANDLED_MAIN == {169, 165, 173, 170, 232, 133, 149, 0}

\* opc is absent from the opcode table, or it has no handler
Unsupported(opc) ==
    IF variant = "cpu"
    THEN opc \notin DOMAIN OPCODES_MAP \/ opc \notin HANDLED
    ELSE opc \notin HANDLED_MAIN

\* C14: when run() fetches an unsupported opcode byte (absent from the opcode
\* table, or present with no handler) execution stops with a fault naming the
\* condition: no handler runs, no later instruction is executed, and the
\* accumulator, index-X, index-Y, the status flags and memory are as they were
\* before the byte was fetched.
C14_UnsupportedOpcode ==
    [][/\ (mode = "running" /\ code' # FAULT /\ Unsupported(code')) =>
             /\ mode' = "panicked"
             /\ fault' \in {NotRecognized, NotImplemented}
             /\ (variant = "cpu" /\ code' \notin DOMAIN OPCODES_MAP)
                    => fault' = NotRecognized
             /\ register_a' = register_a
             /\ register_x' = register_x
             /\ register_y' = register_y
             /\ status' = status
             /\ memory' = memory
       /\ mode = "panicked" => FALSE]_vars

\* LDA #0xFF; TAX; then byte 0x02, which is in no table: the panic leaves
\* A = X = 0xFF and the flags of the TAX; the INX behind it has not run
C14_Witness ==
    /\ mode = "panicked" /\ fault = NotRecognized /\ code = 2
    /\ fetch_pc = 32771 /\ program_counter = 32772
    /\ register_a = 255 /\ register_x = 255 /\ Negative /\ ~Zero

\* run() has fetched at least once and has been left
RunEnded == mode \in {"halted", "panicked"} /\ fetch_pc # -1

\* C15: run() ends in one of exactly two ways: it halts on a Break opcode or
\* it aborts on an unsupported opcode; the loop has no other exit.
C15_TwoWaysOut ==
    RunEnded =>
        \/ mode = "halted" /\ code = BRK_CODE
        \/ mode = "panicked" /\ fault \in {NotRecognized, NotImplemented}

-----------------------------------------------------------------------------
(* Programs on data the caller prepared *)

\* the byte the caller's last write put at address a, -1 if it put none there
WrittenAt(a) ==
    CASE written.op = "mem_write" /\ written.addr = a -> written.data
      [] written.op = "mem_write_u16" /\ written.addr = a -> written.data % 256
      [] written.op = "mem_write_u16" /\ written.addr + 1 = a ->
             written.data \div 256
      [] OTHER -> -1

\* the address the program [0xA5, z, 0x00] or [0xAD, lo, hi, 0x00] loads from
LdaTarget ==
    CASE program.len = 3 /\ VecAt(program, 0) = 165 -> VecAt(program, 1)
      [] program.len = 4 /\ VecAt(program, 0) = 173 ->
             VecAt(program, 1) + (256 * VecAt(program, 2))
      [] OTHER -> -1

\* a is outside the loaded image and the reset vector
OutsideImage(a) ==
    /\ a < ORIGIN \/ a >= ORIGIN + program.len
    /\ a \notin {RESET_VECTOR, RESET_VECTOR + 1}

\* C16: data written with mem_write / mem_write_u16 before load_and_run, at an
\* address outside the loaded image and the reset vector, survives load and
\* reset and is what LDA zero-page (0xA5 z) and LDA absolute (0xAD lo hi) put
\* in the accumulator; the Break behind the LDA is then fetched at its place.
C16_WrittenDataLoaded ==
    (/\ last.op = "load_and_run"
     /\ LdaTarget # -1 /\ OutsideImage(LdaTarget)
     /\ WrittenAt(LdaTarget) # -1) =>
        /\ mode \in {"running", "halted"}
        /\ MemAt(memory, LdaTarget) = WrittenAt(LdaTarget)
        /\ code # -1 => register_a = WrittenAt(LdaTarget)
        /\ mode = "halted" =>
               /\ code = BRK_CODE
               /\ fetch_pc = ORIGIN + program.len - 1
               /\ program_counter = ORIGIN + program.len

\* mem_write_u16(0x55DD, 0x4455), then [0xAD, 0xDE, 0x55, 0x00]: A = 0x44
C16_Witness ==
    /\ mode = "halted" /\ last.op = "load_and_run"
    /\ written = Call("mem_write_u16", 21981, 17493, -1)
    /\ LdaTarget = 21982
    /\ register_a = 68 /\ fetch_pc = 32771

\* the loaded program is LDA #v; TAX; STA z,X; BRK
IsStoreProgram ==
    program = StoreProgram(VecAt(program, 1), VecAt(program, 4))

\* C17: for every accumulator value v and zero-page operand z, load_and_run of
\* [0xA9, v, 0xAA, 0x95, z, 0x00] ends with the byte at address
\* (z + index-X) mod 256 equal to v, the accumulator.
C17_StoreZeroPageX ==
    (mode \in {"halted", "panicked"} /\ last.op = "load_and_run"
        /\ IsStoreProgram) =>
        LET v == VecAt(program, 1)
            z == VecAt(program, 4)
        IN /\ mode = "halted"
           /\ register_a = v
           /\ register_x = v
           /\ MemAt(memory, (z + register_x) % 256) = v

\* v = 255, z = 128: the store lands at 0x7F, not at 0x17F
C17_Witness ==
    /\ mode = "halted" /\ last.op = "load_and_run"
    /\ program = StoreProgram(255, 128)
    /\ register_x = 255 /\ MemAt(memory, 127) = 255 /\ MemAt(memory, 383) = 0

-----------------------------------------------------------------------------
(* The addressing-mode resolver *)

\* the byte and the little-endian word at the program counter
OperandByte == MemAt(memory, program_counter)
OperandWord == MemAt(memory, program_counter) + (256 * MemAt(memory, program_counter + 1))

\* the little-endian word stored in page 0 at p and (p + 1) mod 256
PageZeroWord(p) == MemAt(memory, p % 256) + (256 * MemAt(memory, (p + 1) % 256))

\* C18: get_operand_address(Indirect_Y) returns the architectural
\* indirect-indexed address: with p the byte at the program counter (no index
\* added) and base the little-endian word at p / p+1 in page 0, it returns
\* (base + index-Y) mod 65536.
C18_IndirectYArchitectural ==
    last.op = "Indirect_Y" =>
        /\ fault = NoFault
        /\ last.ret = (PageZeroWord(OperandByte) + register_y) % 65536

\* C19: get_operand_address(Indirect_X) returns, with b the byte at the program
\* counter and x index-X, the word whose low byte is memory[(b + x) mod 256]
\* and whose high byte is memory[(b + x + 1) mod 256], both read from page 0.
C19_IndirectX ==
    last.op = "Indirect_X" =>
        /\ fault = NoFault
        /\ last.ret = MemAt(memory, (OperandByte + register_x) % 256)
                      + (256 * MemAt(memory, (OperandByte + register_x + 1) % 256))

\* b = 0xFE, x = 1: the pointer is 0xFF, its high byte is read at 0x00 (0x12)
\* and not at 0x100 (0x56)
C19_Witness ==
    /\ last.op = "Indirect_X" /\ OperandByte = 254 /\ register_x = 1
    /\ MemAt(memory, 255) = 52 /\ MemAt(memory, 0) = 18 /\ MemAt(memory, 256) = 86
    /\ last.ret = 4660

\* the k operand bytes at the program counter are inside the array
OperandInArray(k) == program_counter + k <= MEMORY_LEN

\* C20: ZeroPage_X / ZeroPage_Y return (byte at PC + X or Y) mod 256, always an
\* address below 0x0100, and Absolute_X / Absolute_Y return (little-endian
\* word at PC + X or Y) mod 65536, without fault, for every operand (inside
\* the array) and index value.
C20_IndexedDirect ==
    /\ last.op = "ZeroPage_X" =>
           /\ fault = NoFault
           /\ last.ret = (OperandByte + register_x) % 256
           /\ last.ret < 256
    /\ last.op = "ZeroPage_Y" =>
           /\ fault = NoFault
           /\ last.ret = (OperandByte + register_y) % 256
           /\ last.ret < 256
    /\ (last.op = "Absolute_X" /\ OperandInArray(2)) =>
           /\ fault = NoFault
           /\ last.ret = (OperandWord + register_x) % 65536
    /\ (last.op = "Absolute_Y" /\ OperandInArray(2)) =>
           /\ fault = NoFault
           /\ last.ret = (OperandWord + register_y) % 65536

\* word 0xFFFF plus index-Y 2 wraps to 0x0001; byte 0xFF plus index-X 1 wraps
\* to 0x00 in the same CPU
C20_Witness ==
    /\ last.op = "Absolute_Y" /\ OperandWord = 65535 /\ register_y = 2
    /\ last.ret = 1 /\ fault = NoFault
    /\ get_operand_address(Cpu, "ZeroPage_X") = (255 + register_x) % 256

-----------------------------------------------------------------------------
(* Frame of STA and the status flags during run() *)

\* C21: STA (0x85, 0x95, 0x8d, 0x9d, 0x99, 0x81, 0x91) changes exactly one
\* memory byte, the one at the resolved effective address, which becomes equal
\* to the accumulator; the accumulator, index-X, index-Y, every status flag and
\* every other memory byte are unchanged.
C21_StoreFrame ==
    [][(Executed /\ code' \in STA_CODES) =>
          /\ Resolved(code') # FAULT
          /\ memory' = Store(memory, Resolved(code'), register_a)
          /\ MemAt(memory', Resolved(code')) = register_a
          /\ \A a \in (DOMAIN memory \cup DOMAIN memory') \ {Resolved(code')} :
                 MemAt(memory', a) = MemAt(memory, a)
          /\ register_a' = register_a
          /\ register_x' = register_x
          /\ register_y' = register_y
          /\ status' = status]_vars

\* LDA #0xFF; STA $10 over the 0x50 the caller had written at 0x10
C21_Witness ==
    /\ mode = "running" /\ code = 133 /\ fetch_pc = 32770
    /\ written = Call("mem_write", 16, 80, -1)
    /\ MemAt(memory, 16) = 255 /\ register_a = 255 /\ register_x = 0
    /\ Negative /\ ~Zero

\* run() has been entered (by run() or by load_and_run())
InRun == last.op \in {"run", "load_and_run"}

FLAG_CODES == LDA_CODES \cup ADC_CODES \cup {TAX_CODE, INX_CODE}

\* Zero and Negative describe the accumulator
MirrorsAccumulator ==
    /\ Zero <=> (register_a = 0)
    /\ Negative <=> (register_a >= 128)

\* C23: once a flag-affecting instruction (LDA, ADC, TAX or INX) has executed
\* since reset, in every state of run() Zero is set iff the accumulator is 0
\* and Negative iff bit 7 of the accumulator is set, whichever register the
\* last instruction modified: each such instruction establishes it and every
\* later pass of the loop keeps it.
C23_FlagsMirrorAccumulator ==
    [][(mode = "running") =>
          /\ (Executed /\ code' \in FLAG_CODES) => MirrorsAccumulator'
          /\ MirrorsAccumulator => MirrorsAccumulator']_vars

\* LDA #0xFF; TAX; INX: index-X is 0 and the accumulator 0xFF; Zero is clear
\* and Negative set
C23_Witness ==
    /\ mode = "running" /\ code = INX_CODE /\ fetch_pc = 32771
    /\ register_x = 0 /\ register_a = 255
    /\ ~Zero /\ Negative

====
